---- MODULE Spec2Model ----
(***************************************************************************)
(* Guestbook (Go + PostgreSQL): the "entry" table, the EntryRepo           *)
(* operations AddEntry / CountEntries / ListEntries, the write path        *)
(* (FormHandler, POST /) and the read path (ListHandler, GET /).           *)
(*                                                                         *)
(* Strings are sequences of one-character strings, so that                 *)
(* strings.TrimSpace and strconv.Atoi are computed character by character. *)
(* Each HTTP request runs in its own goroutine; the only shared state is   *)
(* the database, which a handler touches one SQL statement at a time.  A   *)
(* handler is therefore cut into one step per statement it issues.         *)
(*                                                                         *)
(* The database executes a statement atomically: it takes effect and       *)
(* returns its result, or it fails with an error and has no effect.        *)
(***************************************************************************)
EXTENDS Integers, Sequences, FiniteSets

(* ------------------------------ bounds -------------------------------- *)

\* Number of HTTP requests served in one behaviour (each in its own goroutine).
NumReqs == 2

\* Largest number of rows the table holds when the server starts.
MaxSeed == 10

\* How many statements or page writes fail for a reason outside the program
\* (a lost connection, a client that has gone away).
MaxFaults == 1

\* Width in bits of Go's int in the model (64 or 32 in a real build).
IntBits == 8

(* ------------------------- program constants -------------------------- *)

MaxEntriesPerPage == 10

\* "name" VARCHAR(255), "email" VARCHAR(255), "message" VARCHAR(1023)
NameWidth == 255
EmailWidth == 255
MessageWidth == 1023

StatusOK == 200
StatusFound == 302
StatusBadRequest == 400
StatusInternalServerError == 500

(* ------------------------ fixed-width integers ------------------------ *)

RECURSIVE TwoPow(_)
TwoPow(n) == IF n = 0 THEN 1 ELSE 2 * TwoPow(n - 1)

MaxInt == TwoPow(IntBits - 1) - 1
MinInt == 0 - TwoPow(IntBits - 1)

\* Two's-complement wrap-around of a mathematical integer into Go's int.
WrapInt(x) == ((x + TwoPow(IntBits - 1)) % TwoPow(IntBits)) - TwoPow(IntBits - 1)

(* ------------------------------ strings ------------------------------- *)

\* The characters unicode.IsSpace accepts (those that occur in the inputs).
WhiteSpace == {" ", "\t", "\n", "\r"}

RECURSIVE TrimLeft(_)
TrimLeft(s) ==
    IF s # <<>> /\ Head(s) \in WhiteSpace THEN TrimLeft(Tail(s)) ELSE s

RECURSIVE TrimRight(_)
TrimRight(s) ==
    IF s # <<>> /\ s[Len(s)] \in WhiteSpace
    THEN TrimRight(SubSeq(s, 1, Len(s) - 1))
    ELSE s

\* A mutation of TrimSpace that leaves its argument as it is.
TrimSpaceIdentity(s) == s

\* strings.TrimSpace: all leading and trailing white space removed.
TrimSpace(s) == TrimRight(TrimLeft(s))

DigitChars == <<"0", "1", "2", "3", "4", "5", "6", "7", "8", "9">>

IsDigit(c) == \E d \in 1..10 : DigitChars[d] = c

DigitVal(c) == (CHOOSE d \in 1..10 : DigitChars[d] = c) - 1

RECURSIVE DecVal(_)
DecVal(s) ==
    IF s = <<>> THEN 0
    ELSE 10 * DecVal(SubSeq(s, 1, Len(s) - 1)) + DigitVal(s[Len(s)])

\* The decimal numeral of a natural number (strconv.Itoa, used for inputs).
RECURSIVE Itoa(_)
Itoa(n) ==
    IF n < 10 THEN <<DigitChars[n + 1]>>
    ELSE Itoa(n \div 10) \o <<DigitChars[(n % 10) + 1]>>

\* strconv.Atoi: an optional sign and decimal digits, within the range of int.
Atoi(s) ==
    LET signed == s # <<>> /\ s[1] \in {"+", "-"}
        neg    == s # <<>> /\ s[1] = "-"
        body   == IF signed THEN Tail(s) ELSE s
    IN  IF body = <<>> \/ \E i \in 1..Len(body) : ~IsDigit(body[i])
        THEN [ok |-> FALSE, val |-> 0, err |-> "invalid syntax"]
        ELSE LET v == DecVal(body)
                 n == IF neg THEN 0 - v ELSE v
             IN  IF n > MaxInt \/ n < MinInt
                 THEN [ok |-> FALSE, val |-> 0, err |-> "value out of range"]
                 ELSE [ok |-> TRUE, val |-> n, err |-> "none"]

Repeat(c, n) == [i \in 1..n |-> c]

(* ------------------------- the "entry" table --------------------------- *)

\* A row as the server finds it at start-up (written by an earlier run).
SeedRow(i, posted) ==
    [id |-> i, name |-> <<"s">>, email |-> <<"s">>, message |-> <<"s">>,
     posted |-> posted]

\* The column widths of CREATE TABLE "entry": a longer value is refused.
FitsColumns(name, email, message) ==
    /\ Len(name) <= NameWidth
    /\ Len(email) <= EmailWidth
    /\ Len(message) <= MessageWidth

\* A mutation of InsertRow that overwrites the newest row.
InsertRowOverwrite(tbl, row) ==
    IF tbl = <<>> THEN <<row>> ELSE [tbl EXCEPT ![Len(tbl)] = row]

\* A mutation of InsertRow that stores the row twice.
InsertRowTwice(tbl, row) == tbl \o <<row, row>>

\* INSERT INTO "entry": one row more, all other rows as they were.
InsertRow(tbl, row) == Append(tbl, row)

\* SELECT COUNT(*) FROM "entry"
CountRows(tbl) == Len(tbl)

\* How the engine orders two rows of equal "posted": the query names no
\* second sort key, so either order is a result the engine may produce.
TieBreaks == {"asc", "desc"}

\* ORDER BY posted DESC: q comes before r.
Before(q, r, tb) ==
    \/ q.posted > r.posted
    \/ /\ q.posted = r.posted
       /\ IF tb = "asc" THEN q.id < r.id ELSE q.id > r.id

\* r put into a sequence that is in order, before the first row it precedes.
RECURSIVE InsertInOrder(_, _, _)
InsertInOrder(r, s, tb) ==
    IF s = <<>> THEN <<r>>
    ELSE IF Before(r, Head(s), tb) THEN <<r>> \o s
         ELSE <<Head(s)>> \o InsertInOrder(r, Tail(s), tb)

\* The first n rows of the table in the order of ORDER BY posted DESC.
RECURSIVE SortPrefix(_, _, _)
SortPrefix(tbl, n, tb) ==
    IF n = 0 THEN <<>> ELSE InsertInOrder(tbl[n], SortPrefix(tbl, n - 1, tb), tb)

RECURSIVE Reverse(_)
Reverse(s) == IF s = <<>> THEN <<>> ELSE Append(Reverse(Tail(s)), Head(s))

\* A mutation of OrderByPostedDesc that orders oldest first.
OrderByPostedAsc(tbl, tb) == Reverse(SortPrefix(tbl, Len(tbl), tb))

\* The rows of the table in the order of ORDER BY posted DESC.
OrderByPostedDesc(tbl, tb) == SortPrefix(tbl, Len(tbl), tb)

Min(a, b) == IF a < b THEN a ELSE b

\* A mutation of ListQuery that skips no row.
ListQueryNoOffset(tbl, limit, offset, tb) ==
    [err |-> "none",
     rows |-> SubSeq(OrderByPostedDesc(tbl, tb), 1, Min(limit, Len(tbl)))]

\* SELECT ... ORDER BY posted DESC LIMIT $1 OFFSET $2.  PostgreSQL refuses
\* a negative OFFSET with an error.
ListQuery(tbl, limit, offset, tb) ==
    IF offset < 0
    THEN [err |-> "OFFSET must not be negative", rows |-> <<>>]
    ELSE [err |-> "none",
          rows |-> SubSeq(OrderByPostedDesc(tbl, tb),
                          offset + 1, Min(offset + limit, Len(tbl)))]

\* (page-1)*MaxEntriesPerPage in Go's int arithmetic.
PageOffset(page) == WrapInt(WrapInt(page - 1) * MaxEntriesPerPage)

(* --------------------------- page numbers ------------------------------ *)

\* float64(i): the rational i/1.
Float64(i) == [num |-> i, den |-> 1]

\* math.Ceil on a non-negative rational.
Ceil(f) == [num |-> (f.num + f.den - 1) \div f.den, den |-> 1]

\* int(f): truncation.
IntOfFloat(f) == f.num \div f.den

\* A mutation of PageCount that divides in floating point.
PageCountCeil(totalEntries) ==
    IntOfFloat(Ceil([num |-> totalEntries, den |-> MaxEntriesPerPage]))

\* int(math.Ceil(float64(totalEntries / MaxEntriesPerPage)))
PageCount(totalEntries) ==
    IntOfFloat(Ceil(Float64(totalEntries \div MaxEntriesPerPage)))

\* for i := 1; i <= pageCount; i++ { pageNumbers = append(pageNumbers, i) }
PageNumbers(pageCount) == [i \in 1..pageCount |-> i]

\* {{ range $n := .pageNumbers }} ... {{ else }} 1 {{ end }}
RenderPages(pageNumbers) ==
    IF pageNumbers = <<>> THEN <<1>> ELSE pageNumbers

(* ------------------------------ requests ------------------------------ *)

Procs == 1..NumReqs

\* One more character than the "name" column holds.
LongName == Repeat("a", NameWidth + 1)

\* The bodies of the POST requests: name, email and message as submitted.
Forms ==
    { [name |-> <<" ", "a", "\t">>, email |-> <<"e", "\r", "\n">>, message |-> <<"m", "\n", "m">>],
      [name |-> <<>>, email |-> <<"e">>, message |-> <<"m">>],
      [name |-> <<"a">>, email |-> <<" ", "\t">>, message |-> <<"m">>],
      [name |-> <<"a">>, email |-> <<"e">>, message |-> <<"\n">>],
      [name |-> LongName, email |-> <<"e">>, message |-> <<"m">>] }

\* The least page >= 1 whose offset (page-1)*MaxEntriesPerPage leaves int
\* and wraps around to a small non-negative number.
WrapPage == (TwoPow(IntBits) \div MaxEntriesPerPage) + 2

\* The values of the "page" query parameter; <<>> is a missing parameter.
PageParams ==
    { <<>>, <<" ">>, <<" ", "2", "\n">>, <<"0">>, <<"-", "1">>, <<"1", "x">>,
      Itoa(WrapPage), Itoa(MaxInt), Itoa(MaxInt + 1) }

NoForm == [name |-> <<>>, email |-> <<>>, message |-> <<>>]

NoRequest == [method |-> "NONE", form |-> NoForm, page |-> <<>>]

NoLocal ==
    [name |-> <<>>, email |-> <<>>, message |-> <<>>, posted |-> 0,
     page |-> 1, currentPageEntries |-> <<>>, totalEntries |-> 0,
     pageNumbers |-> <<>>]

NoResponse == [status |-> 0, location |-> "", text |-> "", err |-> "none",
               entries |-> <<>>, pages |-> <<>>]

NoCalls == [add |-> <<>>, addErr |-> <<>>, list |-> <<>>, count |-> 0]

NoLog == [method |-> "NONE", status |-> 0]

(* ------------------------------- state -------------------------------- *)

VARIABLES
    table,      \* the rows of "entry", in the order they were committed
    nextId,     \* the next value of the identity column "id"
    clock,      \* CURRENT_TIMESTAMP of the database, in milliseconds
    faults,     \* how many statements and page writes have failed from outside
    initCount,  \* the number of rows at start-up
    pc,         \* pc[p]: where goroutine p is in its handler
    req,        \* req[p]: the HTTP request goroutine p serves
    local,      \* local[p]: the handler's local variables
    resp,       \* resp[p]: the HTTP response written
    calls,      \* calls[p]: the EntryRepo calls the handler has made, and what
                \* they returned
    log         \* log[p]: method and status of request p, for good

vars == <<table, nextId, clock, faults, initCount, pc, req, local, resp, calls, log>>

\* The numbers of rows the server may find at start-up.
SeedCounts == {0, MaxSeed - 1, MaxSeed}

\* The tables the server may find at start-up: n rows, posted either one
\* millisecond apart or all in the same millisecond.
SeedTable(n, spread) == [i \in 1..n |-> SeedRow(i, IF spread THEN i ELSE 0)]

Init ==
    /\ \E n \in SeedCounts, spread \in BOOLEAN :
          /\ table = SeedTable(n, spread)
          /\ nextId = n + 1
          /\ clock = IF spread THEN n ELSE 0
          /\ initCount = n
    /\ faults = 0
    /\ pc = [p \in Procs |-> "idle"]
    /\ req = [p \in Procs |-> NoRequest]
    /\ local = [p \in Procs |-> NoLocal]
    /\ resp = [p \in Procs |-> NoResponse]
    /\ calls = [p \in Procs |-> NoCalls]
    /\ log = [p \in Procs |-> NoLog]

\* http.Error(w, text + err, status)
ErrorResponse(status, text, err) ==
    [NoResponse EXCEPT !.status = status, !.text = text, !.err = err]

\* Whether a statement (or the writing of the page) goes through: it can
\* fail from outside the program while the budget of faults lasts.
Outcomes == IF faults < MaxFaults THEN BOOLEAN ELSE {TRUE}

\* Goroutine p takes the next request: the goroutines are numbered in the
\* order their requests arrive.
Arrives(p) == pc[p] = "idle" /\ \A q \in Procs : q < p => pc[q] # "idle"

\* A goroutine's request, locals and response exist while it runs and in the
\* state in which it has just returned; after that only the log line stays.
Live(f, none) == [q \in Procs |-> IF pc[q] = "done" THEN none ELSE f[q]]

\* Goroutine p has just written its response.
Returned(p) == pc[p] = "done" /\ req[p].method # "NONE"

(* ------------------------ FormHandler (POST /) ------------------------ *)

\* The negation of: name == "" || email == "" || message == ""
FormIsComplete(name, email, message) ==
    ~(name = <<>> \/ email = <<>> \/ message = <<>>)

\* FormHandler.ServeHTTP up to the INSERT statement it sends: the fields are
\* trimmed and checked, and AddEntry is entered.  The statement's transaction
\* starts here, in the current millisecond or the next, which fixes the
\* CURRENT_TIMESTAMP the row will carry.
FormHandlerStart(p) ==
    /\ Arrives(p)
    /\ \E form \in Forms, now \in {clock, clock + 1} :
          LET name    == TrimSpace(form.name)
              email   == TrimSpace(form.email)
              message == TrimSpace(form.message)
              request == [method |-> "POST", form |-> form, page |-> <<>>]
          IN  /\ req' = [Live(req, NoRequest) EXCEPT ![p] = request]
              /\ IF ~FormIsComplete(name, email, message)
                 THEN /\ now = clock
                      /\ resp' = [Live(resp, NoResponse) EXCEPT ![p] =
                             ErrorResponse(StatusBadRequest,
                                           "name, email and message are required", "none")]
                      /\ pc' = [pc EXCEPT ![p] = "done"]
                      /\ log' = [log EXCEPT ![p] =
                             [method |-> "POST", status |-> StatusBadRequest]]
                      /\ local' = Live(local, NoLocal)
                      /\ calls' = Live(calls, NoCalls)
                 ELSE /\ local' = [Live(local, NoLocal) EXCEPT ![p] =
                             [NoLocal EXCEPT !.name = name, !.email = email,
                                             !.message = message, !.posted = now]]
                      /\ calls' = [Live(calls, NoCalls) EXCEPT ![p].add =
                             Append(@, [name |-> name, email |-> email, message |-> message])]
                      /\ pc' = [pc EXCEPT ![p] = "AddEntry"]
                      /\ resp' = Live(resp, NoResponse)
                      /\ UNCHANGED log
              /\ clock' = now
    /\ UNCHANGED <<table, nextId, faults, initCount>>

\* A mutation of AddEntryStatus that redirects whatever AddEntry returned.
AddEntryStatusAlwaysFound(err) == StatusFound

\* if err != nil { http.Error(.., 500) } else { http.Redirect(.., "/", 302) }
AddEntryStatus(err) ==
    IF err # "none" THEN StatusInternalServerError ELSE StatusFound

\* The INSERT of AddEntry takes effect or fails, and FormHandler answers.
\* The engine refuses a value longer than its column; any statement can also
\* fail for a reason outside the program (connOK = FALSE).  A failed INSERT
\* stores nothing; one the engine refused has drawn its identity value.
FormHandlerFinish(p) ==
    /\ pc[p] = "AddEntry"
    /\ \E connOK \in Outcomes :
          LET l   == local[p]
              err == IF ~connOK THEN "connection failure"
                     ELSE IF ~FitsColumns(l.name, l.email, l.message)
                          THEN "value too long for type character varying"
                          ELSE "none"
              row == [id |-> nextId, name |-> l.name, email |-> l.email,
                      message |-> l.message, posted |-> l.posted]
          IN  /\ IF err = "none"
                 THEN /\ table' = InsertRow(table, row)
                      /\ nextId' = nextId + 1
                 ELSE /\ nextId' = IF connOK THEN nextId + 1 ELSE nextId
                      /\ UNCHANGED table
              /\ faults' = IF connOK THEN faults ELSE faults + 1
              /\ calls' = [Live(calls, NoCalls) EXCEPT ![p].addErr = Append(@, err)]
              /\ resp' = [Live(resp, NoResponse) EXCEPT ![p] =
                    IF AddEntryStatus(err) = StatusFound
                    THEN [NoResponse EXCEPT !.status = StatusFound, !.location = "/"]
                    ELSE ErrorResponse(AddEntryStatus(err), "Error creating entry: ", err)]
              /\ log' = [log EXCEPT ![p] =
                    [method |-> "POST", status |-> AddEntryStatus(err)]]
    /\ pc' = [pc EXCEPT ![p] = "done"]
    /\ req' = Live(req, NoRequest)
    /\ local' = Live(local, NoLocal)
    /\ UNCHANGED <<clock, initCount>>

(* ------------------------- ListHandler (GET /) ------------------------ *)

\* A mutation of ParsePage that lets every number through.
ParsePageNoGuard(param) ==
    LET pageParam == TrimSpace(param)
        a         == Atoi(pageParam)
    IN  IF pageParam # <<>> /\ ~a.ok
        THEN [status |-> StatusBadRequest, page |-> 1,
              text |-> "Error parsing page parameter: ", err |-> a.err]
        ELSE [status |-> 0, page |-> IF pageParam # <<>> THEN a.val ELSE 1,
              text |-> "", err |-> "none"]

\* The page number ListHandler takes from the "page" parameter, or the
\* client error it answers with: page = 1 unless the trimmed parameter is
\* not empty, strconv.Atoi of it, and the check page < 1.
ParsePage(param) ==
    LET pageParam == TrimSpace(param)
        a         == Atoi(pageParam)
        page      == IF pageParam # <<>> THEN a.val ELSE 1
    IN  IF pageParam # <<>> /\ ~a.ok
        THEN [status |-> StatusBadRequest, page |-> 1,
              text |-> "Error parsing page parameter: ", err |-> a.err]
        ELSE IF page < 1
             THEN [status |-> StatusBadRequest, page |-> page,
                   text |-> "Invalid page number", err |-> "none"]
             ELSE [status |-> 0, page |-> page, text |-> "", err |-> "none"]

\* ListHandler.ServeHTTP up to its first statement: the template text is a
\* constant of the build that parses, so only the page parameter decides.
ListHandlerStart(p) ==
    /\ Arrives(p)
    /\ \E param \in PageParams :
          LET parsed  == ParsePage(param)
              request == [method |-> "GET", form |-> NoForm, page |-> param]
          IN  /\ req' = [Live(req, NoRequest) EXCEPT ![p] = request]
              /\ local' = [Live(local, NoLocal) EXCEPT ![p].page = parsed.page]
              /\ IF parsed.status # 0
                 THEN /\ resp' = [Live(resp, NoResponse) EXCEPT ![p] =
                             ErrorResponse(parsed.status, parsed.text, parsed.err)]
                      /\ pc' = [pc EXCEPT ![p] = "done"]
                      /\ log' = [log EXCEPT ![p] =
                             [method |-> "GET", status |-> parsed.status]]
                 ELSE /\ pc' = [pc EXCEPT ![p] = "ListEntries"]
                      /\ resp' = Live(resp, NoResponse)
                      /\ UNCHANGED log
    /\ calls' = Live(calls, NoCalls)
    /\ UNCHANGED <<table, nextId, clock, faults, initCount>>

\* h.repo.ListEntries(page): the SELECT with LIMIT MaxEntriesPerPage and
\* OFFSET (page-1)*MaxEntriesPerPage, run on the table as it is now.
ListHandlerList(p) ==
    /\ pc[p] = "ListEntries"
    /\ \E connOK \in Outcomes, tb \in TieBreaks :
          LET page   == local[p].page
              offset == PageOffset(page)
              q      == ListQuery(table, MaxEntriesPerPage, offset, tb)
              err    == IF ~connOK THEN "connection failure" ELSE q.err
              rows   == IF err = "none" THEN q.rows ELSE <<>>
          IN  /\ faults' = IF connOK THEN faults ELSE faults + 1
              /\ calls' = [Live(calls, NoCalls) EXCEPT ![p].list =
                    Append(@, [page |-> page, offset |-> offset, err |-> err,
                               n |-> Len(rows), total |-> Len(table),
                               engine |-> connOK])]
              /\ IF err # "none"
                 THEN /\ resp' = [Live(resp, NoResponse) EXCEPT ![p] =
                             ErrorResponse(StatusInternalServerError,
                                           "Error loading entries: ", err)]
                      /\ pc' = [pc EXCEPT ![p] = "done"]
                      /\ log' = [log EXCEPT ![p] =
                             [method |-> "GET", status |-> StatusInternalServerError]]
                      /\ local' = Live(local, NoLocal)
                 ELSE /\ local' = [Live(local, NoLocal) EXCEPT
                                      ![p].currentPageEntries = rows]
                      /\ pc' = [pc EXCEPT ![p] = "CountEntries"]
                      /\ resp' = Live(resp, NoResponse)
                      /\ UNCHANGED log
    /\ req' = Live(req, NoRequest)
    /\ UNCHANGED <<table, nextId, clock, initCount>>

\* h.repo.CountEntries(), the page numbers and the template: the rest of
\* ListHandler.ServeHTTP.  Writing the page can fail (renderOK = FALSE).
ListHandlerCount(p) ==
    /\ pc[p] = "CountEntries"
    /\ \E connOK \in Outcomes, renderOK \in Outcomes :
          LET totalEntries == CountRows(table)
              pageCount    == PageCount(totalEntries)
              pageNumbers  == PageNumbers(pageCount)
          IN  /\ calls' = [Live(calls, NoCalls) EXCEPT ![p].count = @ + 1]
              /\ faults' = IF connOK /\ renderOK THEN faults ELSE faults + 1
              /\ IF ~connOK
                 THEN /\ renderOK
                      /\ resp' = [Live(resp, NoResponse) EXCEPT ![p] =
                             ErrorResponse(StatusInternalServerError,
                                           "Error counting entries: ", "connection failure")]
                      /\ log' = [log EXCEPT ![p] =
                             [method |-> "GET", status |-> StatusInternalServerError]]
                      /\ local' = Live(local, NoLocal)
                 ELSE /\ local' = [Live(local, NoLocal) EXCEPT
                                      ![p].totalEntries = totalEntries,
                                      ![p].pageNumbers = pageNumbers]
                      /\ resp' = [Live(resp, NoResponse) EXCEPT ![p] =
                             IF renderOK
                             THEN [NoResponse EXCEPT
                                      !.status = StatusOK,
                                      !.entries = local[p].currentPageEntries,
                                      !.pages = RenderPages(pageNumbers)]
                             ELSE ErrorResponse(StatusInternalServerError,
                                                "Error executing template: ", "write failure")]
                      /\ log' = [log EXCEPT ![p] =
                             [method |-> "GET",
                              status |-> IF renderOK THEN StatusOK
                                         ELSE StatusInternalServerError]]
    /\ pc' = [pc EXCEPT ![p] = "done"]
    /\ req' = Live(req, NoRequest)
    /\ UNCHANGED <<table, nextId, clock, initCount>>

(* --------------------------- specification ---------------------------- *)

Next ==
    \/ \E p \in Procs : FormHandlerStart(p)
    \/ \E p \in Procs : FormHandlerFinish(p)
    \/ \E p \in Procs : ListHandlerStart(p)
    \/ \E p \in Procs : ListHandlerList(p)
    \/ \E p \in Procs : ListHandlerCount(p)

Spec == Init /\ [][Next]_vars

(* ------------------------ notions of the claims ----------------------- *)

\* s is empty or consists of white space only.
IsBlank(s) == \A i \in 1..Len(s) : s[i] \in WhiteSpace

\* t is s without its leading and trailing white space.
IsTrimOf(t, s) ==
    /\ t # <<>> => (t[1] \notin WhiteSpace /\ t[Len(t)] \notin WhiteSpace)
    /\ \E i \in 0..(Len(s) - Len(t)) :
          /\ SubSeq(s, i + 1, i + Len(t)) = t
          /\ \A k \in 1..Len(s) : (k <= i \/ k > i + Len(t)) => s[k] \in WhiteSpace

\* One of the three fields of the form is blank.
HasBlankField(form) ==
    IsBlank(form.name) \/ IsBlank(form.email) \/ IsBlank(form.message)

\* Row r carries the trimmed fields of the form.
CarriesForm(r, form) ==
    /\ IsTrimOf(r.name, form.name)
    /\ IsTrimOf(r.email, form.email)
    /\ IsTrimOf(r.message, form.message)

\* The POST requests the server has answered with the redirect.
Accepted == {p \in Procs : log[p].method = "POST" /\ log[p].status = StatusFound}

AllDone == \A p \in Procs : pc[p] = "done"

(* ------------------------------- claims ------------------------------- *)

\* C1: a POST with a name, email or message that is empty or white space only
\* is answered with 400 as soon as it is handled, AddEntry is not called for
\* it, and it adds no row: every row beyond those the table started with
\* belongs to a request that was answered with the redirect.
C1_BlankFieldRejected ==
    \A p \in Procs :
        (req[p].method = "POST" /\ HasBlankField(req[p].form)) =>
            /\ pc[p] = "done"
            /\ resp[p].status = StatusBadRequest
            /\ log[p].status = StatusBadRequest
            /\ calls[p].add = <<>>
            /\ Len(table) = initCount + Cardinality(Accepted)

\* C1 happens: a POST whose email is white space only has been rejected while
\* the table holds rows.
C1_Witness ==
    \E p \in Procs :
        /\ Returned(p)
        /\ req[p].method = "POST"
        /\ req[p].form.email # <<>> /\ IsBlank(req[p].form.email)
        /\ ~IsBlank(req[p].form.name) /\ ~IsBlank(req[p].form.message)
        /\ resp[p].status = StatusBadRequest
        /\ Len(table) > 0

\* C8: for a POST whose three fields are not blank, FormHandler calls
\* AddEntry once, with the trimmed fields, and answers by what that one call
\* returned: the redirect to "/" exactly when it returned no error, and 500
\* with the error exactly when it returned one.
C8_AnswerFollowsAddEntry ==
    \A p \in Procs :
        (Returned(p) /\ req[p].method = "POST" /\ ~HasBlankField(req[p].form)) =>
            /\ Len(calls[p].add) = 1
            /\ Len(calls[p].addErr) = 1
            /\ CarriesForm(calls[p].add[1], req[p].form)
            /\ resp[p].status \in {StatusFound, StatusInternalServerError}
            /\ (resp[p].status = StatusFound) <=> (calls[p].addErr[1] = "none")
            /\ resp[p].status = StatusFound => resp[p].location = "/"
            /\ resp[p].status = StatusInternalServerError =>
                  (resp[p].err = calls[p].addErr[1] /\ resp[p].location = "")

\* C8 happens: AddEntry returned the engine's error for a name longer than
\* its column, and the request was answered with 500 and that error.
C8_Witness ==
    \E p \in Procs :
        /\ Returned(p)
        /\ req[p].method = "POST"
        /\ ~HasBlankField(req[p].form)
        /\ Len(calls[p].add) = 1
        /\ calls[p].addErr = <<"value too long for type character varying">>
        /\ resp[p].status = StatusInternalServerError

\* The decimal numerals with an optional sign.
IsNumeral(s) ==
    LET body == IF s # <<>> /\ s[1] \in {"+", "-"} THEN Tail(s) ELSE s
    IN  body # <<>> /\ \A i \in 1..Len(body) : IsDigit(body[i])

\* The number a numeral stands for.
NumeralValue(s) ==
    IF s[1] = "-" THEN 0 - DecVal(Tail(s))
    ELSE IF s[1] = "+" THEN DecVal(Tail(s)) ELSE DecVal(s)

\* What s is without its leading and trailing white space.
Trims(s) ==
    {t \in {SubSeq(s, i, j) : i \in 1..(Len(s) + 1), j \in 0..Len(s)} : IsTrimOf(t, s)}

\* The request of goroutine p was answered with 400 before any statement.
RejectedUnread(p) ==
    /\ pc[p] = "done"
    /\ resp[p].status = StatusBadRequest
    /\ calls[p].list = <<>>
    /\ calls[p].count = 0

\* C6: ListHandler checks the page parameter before it touches storage.  A
\* missing or blank parameter is page 1 and is not rejected; a parameter that
\* is no number, and a number below 1, are answered with 400 without
\* ListEntries or CountEntries being called; ListEntries is never called with
\* a page below 1.
C6_PageCheckedFirst ==
    \A p \in Procs :
        req[p].method = "GET" =>
            /\ IsBlank(req[p].page) =>
                  /\ local[p].page = 1
                  /\ resp[p].status # StatusBadRequest
                  /\ pc[p] # "ListEntries" =>
                        (Len(calls[p].list) = 1 /\ calls[p].list[1].page = 1)
            /\ (~IsBlank(req[p].page) /\ \A t \in Trims(req[p].page) : ~IsNumeral(t))
                  => RejectedUnread(p)
            /\ (\E t \in Trims(req[p].page) : IsNumeral(t) /\ NumeralValue(t) < 1)
                  => RejectedUnread(p)
            /\ \A i \in 1..Len(calls[p].list) : calls[p].list[i].page >= 1
            /\ calls[p].count > 0 => Len(calls[p].list) = 1

\* C6 happens: a GET with page=0 has been answered with 400 and no statement.
C6_Witness ==
    \E p \in Procs :
        /\ Returned(p)
        /\ req[p].method = "GET"
        /\ req[p].page = <<"0">>
        /\ RejectedUnread(p)

\* The page numbers 1..k, where k tens fit into total.
IsPageList(pages, total) ==
    /\ Len(pages) * MaxEntriesPerPage <= total
    /\ total < (Len(pages) + 1) * MaxEntriesPerPage
    /\ \A i \in 1..Len(pages) : pages[i] = i

\* C7 as claimed: the page numbers ListHandler computes from the count T and
\* the page numbers on the rendered page are both 1..floor(T/10), so that a
\* count below 10 shows no page number.
C7_RenderedPagesAreFloor ==
    \A p \in Procs :
        (Returned(p) /\ req[p].method = "GET" /\ resp[p].status = StatusOK) =>
            /\ local[p].totalEntries = Len(table)
            /\ IsPageList(local[p].pageNumbers, local[p].totalEntries)
            /\ resp[p].pages = local[p].pageNumbers

\* C7, amended: the page numbers ListHandler computes from the count T are
\* 1..floor(T/10) (10 and 11 entries both give the one page 1), and the
\* rendered page shows them, except that it shows the single number 1 when
\* the list is empty (T < 10).
C7_PagesAreFloorOrOne ==
    \A p \in Procs :
        (Returned(p) /\ req[p].method = "GET" /\ resp[p].status = StatusOK) =>
            /\ local[p].totalEntries = Len(table)
            /\ IsPageList(local[p].pageNumbers, local[p].totalEntries)
            /\ resp[p].pages = IF local[p].totalEntries < MaxEntriesPerPage
                               THEN <<1>> ELSE local[p].pageNumbers

\* C7 happens: a page rendered for a table of 11 entries shows the one page
\* number 1.
C7_Witness ==
    \E p \in Procs :
        /\ Returned(p)
        /\ req[p].method = "GET"
        /\ resp[p].status = StatusOK
        /\ local[p].totalEntries = MaxEntriesPerPage + 1
        /\ local[p].pageNumbers = <<1>>
        /\ resp[p].pages = <<1>>

\* C10 as claimed: every offset ListEntries hands to the storage engine is
\* the number (page-1)*10 and is not negative.
C10_OffsetIsExact ==
    \A p \in Procs :
        \A i \in 1..Len(calls[p].list) :
            /\ calls[p].list[i].offset = (calls[p].list[i].page - 1) * MaxEntriesPerPage
            /\ calls[p].list[i].offset >= 0

\* C5 as claimed: a ListEntries for a page whose offset (page-1)*10 is at or
\* beyond the number of entries returns no entry and no error (unless the
\* statement failed from outside the program).
C5_BeyondLastIsEmpty ==
    \A p \in Procs :
        \A i \in 1..Len(calls[p].list) :
            LET c == calls[p].list[i]
            IN  (c.engine /\ (c.page - 1) * MaxEntriesPerPage >= c.total) =>
                    (c.err = "none" /\ c.n = 0)

\* The rows of tbl posted later than r, and those posted no earlier.
PostedAfter(tbl, r) == {i \in 1..Len(tbl) : tbl[i].posted > r.posted}
PostedNotBefore(tbl, r) == {i \in 1..Len(tbl) : tbl[i].posted >= r.posted}

\* rows is what stands at the places k+1..k+10 of the table put in an order
\* of descending posted.
IsSliceAt(rows, tbl, k) ==
    /\ Len(rows) <= MaxEntriesPerPage
    /\ Len(rows) = IF Len(tbl) - k < 0 THEN 0 ELSE Min(MaxEntriesPerPage, Len(tbl) - k)
    /\ \A i \in 1..Len(rows) : \E j \in 1..Len(tbl) : tbl[j] = rows[i]
    /\ \A i, j \in 1..Len(rows) : i < j =>
          (rows[i] # rows[j] /\ rows[i].posted >= rows[j].posted)
    /\ \A i \in 1..Len(rows) :
          /\ Cardinality(PostedAfter(tbl, rows[i])) <= k + i - 1
          /\ Cardinality(PostedNotBefore(tbl, rows[i])) >= k + i

\* Goroutine p is taking the ListEntries step with the statement reaching
\* the engine.
ListsNow(p) ==
    /\ pc[p] = "ListEntries"
    /\ pc'[p] # "ListEntries"
    /\ calls'[p].list[Len(calls'[p].list)].engine

\* C4 as claimed: for every page >= 1, ListEntries(page) returns at most 10
\* entries, newest first: the slice at offset (page-1)*10 of the table in
\* descending order of posted.
C4_PageIsSlice ==
    [][\A p \in Procs :
          ListsNow(p) =>
              /\ pc'[p] = "CountEntries"
              /\ IsSliceAt(local'[p].currentPageEntries, table,
                           (local[p].page - 1) * MaxEntriesPerPage)]_vars

\* The ids of the rows of a table.
Ids(tbl) == {tbl[i].id : i \in 1..Len(tbl)}

\* C9: entries are immutable.  A step either leaves the table as it is, or it
\* is the step in which an AddEntry returns without error, and then the table
\* is the old one with one row appended whose id is new; the steps of a GET
\* leave the table as it is; no two rows share an id.
C9_TableOnlyGrows ==
    [][/\ \/ table' = table
          \/ /\ Len(table') = Len(table) + 1
             /\ SubSeq(table', 1, Len(table)) = table
             /\ table'[Len(table')].id \notin Ids(table)
             /\ \E p \in Procs :
                   /\ pc[p] = "AddEntry" /\ pc'[p] = "done"
                   /\ calls'[p].addErr = <<"none">>
                   /\ resp'[p].status = StatusFound
       /\ \A p \in Procs :
             (pc[p] \in {"ListEntries", "CountEntries"} /\ pc'[p] # pc[p])
                 => table' = table
       /\ \A p \in Procs :
             (pc[p] = "idle" /\ pc'[p] # "idle") => table' = table
       /\ Cardinality(Ids(table')) = Len(table')]_vars

\* C9 happens: a row has been added to a table that held rows, and a GET has
\* read the table since.
C9_Witness ==
    /\ initCount > 0
    /\ Len(table) > initCount
    /\ \E p \in Procs : Returned(p) /\ req[p].method = "GET" /\ resp[p].status = StatusOK

\* The POST requests that got as far as AddEntry: those not answered 400.
Submitted ==
    {p \in Procs : log[p].method = "POST" /\ log[p].status # StatusBadRequest}

\* C3 as claimed: while no statement fails from outside the program, every
\* submission with three non-blank fields succeeds, and once all requests
\* have completed the table holds the rows it started with and one row for
\* each such submission.
C3_EverySubmissionCounted ==
    faults = 0 =>
        /\ \A p \in Procs :
              (Returned(p) /\ req[p].method = "POST" /\ ~HasBlankField(req[p].form))
                  => resp[p].status = StatusFound
        /\ AllDone => Len(table) = initCount + Cardinality(Submitted)

\* C3, amended: under every interleaving a submission whose AddEntry returns
\* no error is answered with the redirect and has added one row, the newest,
\* which carries its trimmed fields and the timestamp of its statement; one
\* whose AddEntry returns an error has added none.  So the table always holds
\* the rows it started with and one row for each submission answered with the
\* redirect, each under an id of its own.
C3_AcceptedCounted ==
    /\ Len(table) = initCount + Cardinality(Accepted)
    /\ Cardinality(Ids(table)) = Len(table)
    /\ \A p \in Procs :
          (Returned(p) /\ req[p].method = "POST" /\ ~HasBlankField(req[p].form)) =>
              /\ (resp[p].status = StatusFound) <=> (calls[p].addErr = <<"none">>)
              /\ resp[p].status = StatusFound =>
                    /\ Len(table) > initCount
                    /\ CarriesForm(table[Len(table)], req[p].form)
                    /\ table[Len(table)].posted = local[p].posted

\* C3 happens: all requests were submissions, all were accepted, and the one
\* that started first was stored last.
C3_Witness ==
    /\ AllDone
    /\ Accepted = Procs
    /\ Len(table) = initCount + NumReqs
    /\ initCount > 0
    /\ table[Len(table)].posted < table[Len(table) - 1].posted

\* Goroutine p is taking the step in which its AddEntry returns without error.
AcceptedNow(p) ==
    /\ pc[p] = "AddEntry"
    /\ pc'[p] = "done"
    /\ resp'[p].status = StatusFound

\* ListEntries(1) on the table, with ties in posted resolved by tb.
PageOne(tbl, tb) == ListQuery(tbl, MaxEntriesPerPage, PageOffset(1), tb)

\* C2 as claimed: once a submission has been accepted, page 1 of the listing
\* includes an entry with its trimmed fields, however the engine orders rows
\* of equal posted.
C2_SubmittedIsOnPageOne ==
    [][\A p \in Procs :
          AcceptedNow(p) =>
              \A tb \in TieBreaks :
                  /\ PageOne(table', tb).err = "none"
                  /\ \E i \in 1..Len(PageOne(table', tb).rows) :
                        CarriesForm(PageOne(table', tb).rows[i], req[p].form)]_vars

\* C2, amended: once a submission has been accepted, the table holds an entry
\* with exactly its trimmed fields, and page 1 of the listing includes that
\* entry whenever fewer than 10 other entries were posted at the same time as
\* it or later.
C2_SubmittedIsListed ==
    [][\A p \in Procs :
          AcceptedNow(p) =>
              LET r == table'[Len(table')]
              IN  /\ Len(table') = Len(table) + 1
                  /\ CarriesForm(r, req[p].form)
                  /\ \A tb \in TieBreaks :
                        /\ PageOne(table', tb).err = "none"
                        /\ Cardinality(PostedNotBefore(table', r) \ {Len(table')})
                                < MaxEntriesPerPage
                              => \E i \in 1..Len(PageOne(table', tb).rows) :
                                    PageOne(table', tb).rows[i] = r]_vars

\* C2 happens: a submission has been accepted into a table of more than 10
\* entries of which it is the newest.
C2_Witness ==
    \E p \in Procs :
        /\ Returned(p)
        /\ req[p].method = "POST"
        /\ resp[p].status = StatusFound
        /\ Len(table) > MaxEntriesPerPage
        /\ CarriesForm(table[Len(table)], req[p].form)
        /\ PostedNotBefore(table, table[Len(table)]) = {Len(table)}

\* Goroutine p has rendered a page: a GET answered with 200.
Rendered(p) ==
    Returned(p) /\ req[p].method = "GET" /\ resp[p].status = StatusOK

\* ListHandler has made its two calls in their order, ListEntries once and
\* then CountEntries once, with no transaction around them: the page shows
\* the entries the first statement returned, and the total is the count at
\* the second, which is at least the count at the moment of the first.
ReadThenCounted(p) ==
    /\ Len(calls[p].list) = 1
    /\ calls[p].count = 1
    /\ resp[p].entries = local[p].currentPageEntries
    /\ Len(resp[p].entries) = calls[p].list[1].n
    /\ local[p].totalEntries = Len(table)
    /\ local[p].totalEntries >= calls[p].list[1].total

====
